---- MODULE Spec2Model ----
(***************************************************************************)
(* Model of content/c2/code.ipynb: the notebook's code cells run in one    *)
(* kernel namespace, top to bottom, and the "fixed precision" chunk of the *)
(* toggle block is executed statement by statement on that same namespace. *)
(*                                                                         *)
(* Python floats are modelled as exact rationals <<num, den>> with den > 0 *)
(* in lowest terms; <<0, 0>> stands for "no number" (an unbound name, None *)
(* or numpy's nan/inf after a float division by zero).                     *)
(***************************************************************************)
EXTENDS Integers, Sequences, FiniteSets, TLC

VARIABLES cell, bound, g, models, mats, data, printed, cellStatus,
          invs, inp, pc, fitArgs, fit, interfered

vars == <<cell, bound, g, models, mats, data, printed, cellStatus,
          invs, inp, pc, fitArgs, fit, interfered>>

(***************************************************************************)
(* Rational arithmetic                                                     *)
(***************************************************************************)
NoNum == <<0, 0>>

IsNum(a) == a[2] # 0

Abs(x) == IF x < 0 THEN -x ELSE x

RECURSIVE GCD(_, _)
GCD(a, b) == IF b = 0 THEN a ELSE GCD(b, a % b)

Rat(n, d) ==
    IF d = 0 THEN NoNum
    ELSE LET s == IF d < 0 THEN -1 ELSE 1
             k == GCD(Abs(n), Abs(d))
         IN  <<(s * n) \div k, (s * d) \div k>>

FromInt(k) == <<k, 1>>

RatMul(a, b) ==
    IF ~IsNum(a) \/ ~IsNum(b) THEN NoNum
    ELSE LET k1 == GCD(Abs(a[1]), b[2])
             k2 == GCD(Abs(b[1]), a[2])
         IN  Rat((a[1] \div k1) * (b[1] \div k2), (a[2] \div k2) * (b[2] \div k1))

RatAdd(a, b) ==
    IF ~IsNum(a) \/ ~IsNum(b) THEN NoNum
    ELSE LET k == GCD(a[2], b[2])
         IN  Rat(a[1] * (b[2] \div k) + b[1] * (a[2] \div k), (a[2] \div k) * b[2])

RatNeg(a) == IF IsNum(a) THEN <<-a[1], a[2]>> ELSE NoNum

RatSub(a, b) == RatAdd(a, RatNeg(b))

RatAbs(a) == IF IsNum(a) THEN <<Abs(a[1]), a[2]>> ELSE NoNum

\* 1/a for a # 0; numpy's float division by zero gives no number.
RatInv(a) == IF ~IsNum(a) THEN NoNum ELSE Rat(a[2], a[1])

RatDiv(a, b) == RatMul(a, RatInv(b))

RatLeq(a, b) == IsNum(a) /\ IsNum(b) /\ a[1] * b[2] <= b[1] * a[2]

RatLt(a, b) == IsNum(a) /\ IsNum(b) /\ a[1] * b[2] < b[1] * a[2]

RatPos(a) == IsNum(a) /\ a[1] > 0

(***************************************************************************)
(* The kernel namespace                                                    *)
(***************************************************************************)
\* The numeric globals the notebook binds.
NumNames == {"big_number", "alpha", "alpha_1", "alpha_2", "lam", "lambda_1", "lambda_2"}

\* The names that hold (or are looked up as) fitted estimators.
ModelNames == {"ridge_model", "lasso_model", "ridgeCV_model", "lassoCV_model",
               "ridgeCV", "lassoCV", "bayes_model", "poisson_model"}

\* The names that hold arrays; a matrix is <<rows, columns, constant columns>>.
MatNames == {"X_train", "y_train", "X_train_with_constant"}

NoMat == <<0, 0, 0>>

\* The six keyword arguments of BayesianRidge; NoNum is "not passed".
NoHp == [alpha_1 |-> NoNum, alpha_2 |-> NoNum, alpha_init |-> NoNum,
         lambda_1 |-> NoNum, lambda_2 |-> NoNum, lambda_init |-> NoNum]

\* An estimator object: its class, its constructor arguments (reg is the
\* alpha of Ridge/Lasso, hp the BayesianRidge keywords), the design matrix it
\* was fitted on and, for the cross-validated ones, the alpha_ it selected.
NoModel == [cls |-> "unbound", reg |-> NoNum, hp |-> NoHp, exog |-> NoMat, alpha_ |-> NoNum]

Estimator(cls, reg, hp, exog, sel) ==
    [cls |-> cls, reg |-> reg, hp |-> hp, exog |-> exog, alpha_ |-> sel]

\* alphas = [0.01, 1, 100]
alphas == <<Rat(1, 100), FromInt(1), FromInt(100)>>

AlphaSet == {alphas[k] : k \in 1..Len(alphas)}

\* The code cells, in document order; the toggle chunk sits between the
\* default BayesianRidge cell and the Poisson cell.
Cells == 1..7

(***************************************************************************)
(* Inputs of the fixed-precision chunk: the literals 11.8, 10 and 10**5    *)
(* of the source, generalised to small sets that hold them.                *)
(***************************************************************************)
BigNumberLit == 100000

SourceInput == [sigma2 |-> Rat(118, 10), tau |-> FromInt(10), big |-> FromInt(BigNumberLit)]

SigmaVals == {FromInt(-1), FromInt(0), FromInt(2), Rat(118, 10)}

TauVals == {FromInt(-2), FromInt(0), Rat(1, 2), FromInt(10)}

BigVals == {FromInt(-1), FromInt(0), FromInt(2), FromInt(10000), FromInt(BigNumberLit)}

Inputs == [sigma2 : SigmaVals, tau : TauVals, big : BigVals]

\* The shapes load_boston may return: <<n_samples, n_features>>.
Shapes == {<<20, 2>>, <<506, 13>>}

(***************************************************************************)
(* The statements of the chunk, each as a function of the namespace        *)
(***************************************************************************)
\* Faulty variant: a division that never raises (numpy's float division).
RaisesNever(x) == FALSE

\* 1/x raises ZeroDivisionError exactly when x == 0.
Raises(x) == IsNum(x) /\ x[1] = 0

\* big_number = 10**5
StmtBigNumber(ns, lit) == [ns EXCEPT !["big_number"] = lit]

\* Faulty variant: the reciprocal is stored under the wrong name.
StmtAlphaMisnamed(ns, sigma2) == [ns EXCEPT !["lam"] = RatInv(sigma2)]

\* alpha = 1/11.8
StmtAlpha(ns, sigma2) == [ns EXCEPT !["alpha"] = RatInv(sigma2)]

\* Faulty variant: the shape forgets the target precision.
StmtAlpha1Unscaled(ns) == [ns EXCEPT !["alpha_1"] = ns["big_number"]]

\* alpha_1 = big_number*alpha
StmtAlpha1(ns) == [ns EXCEPT !["alpha_1"] = RatMul(ns["big_number"], ns["alpha"])]

\* Faulty variant: the rate is scaled like the shape.
StmtAlpha2Scaled(ns) == [ns EXCEPT !["alpha_2"] = RatMul(ns["big_number"], ns["alpha"])]

\* Faulty variant: the rate is the target precision, not the scale.
StmtAlpha2Precision(ns) == [ns EXCEPT !["alpha_2"] = ns["alpha"]]

\* alpha_2 = big_number
StmtAlpha2(ns) == [ns EXCEPT !["alpha_2"] = ns["big_number"]]

\* lam = 1/10
StmtLam(ns, tau) == [ns EXCEPT !["lam"] = RatInv(tau)]

\* Faulty variant: the weight shape uses the noise precision.
StmtLambda1Alpha(ns) == [ns EXCEPT !["lambda_1"] = RatMul(ns["big_number"], ns["alpha"])]

\* lambda_1 = big_number*lam
StmtLambda1(ns) == [ns EXCEPT !["lambda_1"] = RatMul(ns["big_number"], ns["lam"])]

\* Faulty variant: the weight rate is left at the weight shape.
StmtLambda2Shape(ns) == [ns EXCEPT !["lambda_2"] = ns["lambda_1"]]

\* lambda_2 = big_number
StmtLambda2(ns) == [ns EXCEPT !["lambda_2"] = ns["big_number"]]

\* BayesianRidge(alpha_1 = alpha_1, alpha_2 = alpha_2, alpha_init = alpha,
\*               lambda_1 = lambda_1, lambda_2 = lambda_2, lambda_init = lam)
CtorArgs(ns) ==
    [alpha_1 |-> ns["alpha_1"], alpha_2 |-> ns["alpha_2"], alpha_init |-> ns["alpha"],
     lambda_1 |-> ns["lambda_1"], lambda_2 |-> ns["lambda_2"], lambda_init |-> ns["lam"]]

\* The whole derivation on a namespace, for inputs that raise nothing.
Derive(ns, in) ==
    StmtLambda2(StmtLambda1(StmtLam(
        StmtAlpha2(StmtAlpha1(StmtAlpha(StmtBigNumber(ns, in.big), in.sigma2))), in.tau)))

(***************************************************************************)
(* The fitting routine of BayesianRidge (scikit-learn, not in src/).       *)
(* One pass: (a) the posterior weights for the current (alpha_, lambda_)   *)
(* give the residual sum of squares rss and the squared weight norm w2;    *)
(* (b) with gamma the effective number of parameters, the fixed point step *)
(*   lambda_ = (gamma + 2*lambda_1) / (w2 + 2*lambda_2)                    *)
(*   alpha_  = (n_samples - gamma + 2*alpha_1) / (rss + 2*alpha_2).        *)
(* rss, w2 and gamma depend on the data: they are drawn from bounded sets. *)
(***************************************************************************)
MaxIter == 2

RssVals == {0, 6000, 11079}

W2Vals == {340, 5000}

GammaVals(p) == {0, p}

NoFit == [alpha_ |-> NoNum, lambda_ |-> NoNum, iter |-> 0, n |-> 0, gamma |-> 0, rss |-> 0, w2 |-> 0]

UpdateLambda(hp, gamma, w2) ==
    RatDiv(RatAdd(FromInt(gamma), RatMul(FromInt(2), hp.lambda_1)),
           RatAdd(FromInt(w2), RatMul(FromInt(2), hp.lambda_2)))

UpdateAlpha(hp, n, gamma, rss) ==
    RatDiv(RatAdd(FromInt(n - gamma), RatMul(FromInt(2), hp.alpha_1)),
           RatAdd(FromInt(rss), RatMul(FromInt(2), hp.alpha_2)))

(***************************************************************************)
(* Initial state: a fresh kernel, no cell run, one pending run of the      *)
(* chunk with its literals.                                                *)
(***************************************************************************)
FreshKernel ==
    /\ cell = 1
    /\ bound = {}
    /\ g = [nm \in NumNames |-> NoNum]
    /\ models = [nm \in ModelNames |-> NoModel]
    /\ mats = [nm \in MatNames |-> NoMat]
    /\ data = <<0, 0>>
    /\ printed = <<>>
    /\ cellStatus = [c \in Cells |-> "notrun"]

Pending(ids) ==
    /\ invs = ids
    /\ inp \in [ids -> Inputs]
    /\ pc = [i \in ids |-> "s_big"]
    /\ fitArgs = [i \in ids |-> NoHp]
    /\ fit = [i \in ids |-> NoFit]
    /\ interfered = [i \in ids |-> FALSE]

Init == FreshKernel /\ Pending({1})

ChunkVars == <<invs, inp, pc, fitArgs, fit, interfered>>

\* A cell whose lookups all succeed ends "ok"; the first unbound name it
\* reads ends it with NameError, the statements before that one having run.
Outcome(reads) == IF reads \subseteq bound THEN "ok" ELSE "NameError"

Ran(c, outcome) ==
    /\ cellStatus' = [cellStatus EXCEPT ![c] = outcome]
    /\ cell' = c + 1

(***************************************************************************)
(* The code cells                                                          *)
(***************************************************************************)
\* import ...; boston = datasets.load_boston(); X_train, y_train
LoadCell ==
    /\ cell = 1
    /\ \E sh \in Shapes :
        /\ data' = sh
        /\ mats' = [mats EXCEPT !["X_train"] = <<sh[1], sh[2], 0>>,
                                !["y_train"] = <<sh[1], 1, 0>>]
    /\ bound' = bound \cup {"np", "plt", "sns", "datasets", "boston", "X_train", "y_train"}
    /\ Ran(1, "ok")
    /\ UNCHANGED <<g, models, printed, ChunkVars>>

\* alpha = 1; Ridge(alpha = alpha).fit(...); Lasso(alpha = alpha).fit(...)
RidgeLassoCell ==
    /\ cell = 2
    /\ LET out == Outcome({"X_train", "y_train"})
           ns  == [g EXCEPT !["alpha"] = FromInt(1)]
       IN  /\ g' = ns
           /\ bound' = bound \cup {"Ridge", "Lasso", "alpha", "ridge_model"}
                             \cup (IF out = "ok" THEN {"lasso_model"} ELSE {})
           /\ models' = IF out = "ok"
                        THEN [models EXCEPT
                                !["ridge_model"] = Estimator("Ridge", ns["alpha"], NoHp, mats["X_train"], NoNum),
                                !["lasso_model"] = Estimator("Lasso", ns["alpha"], NoHp, mats["X_train"], NoNum)]
                        ELSE [models EXCEPT
                                !["ridge_model"] = Estimator("Ridge", ns["alpha"], NoHp, NoMat, NoNum)]
           /\ Ran(2, out)
    /\ UNCHANGED <<mats, data, printed, ChunkVars>>

\* alphas = [0.01, 1, 100]; RidgeCV(alphas = alphas).fit(...); LassoCV(...).fit(...)
\* Each cross-validated fit selects one of the candidates.
CVCell ==
    /\ cell = 3
    /\ LET out == Outcome({"X_train", "y_train"})
       IN  /\ bound' = bound \cup {"RidgeCV", "LassoCV", "alphas", "ridgeCV_model"}
                             \cup (IF out = "ok" THEN {"lassoCV_model"} ELSE {})
           /\ \E r \in 1..Len(alphas), l \in 1..Len(alphas) :
                models' = IF out = "ok"
                          THEN [models EXCEPT
                                  !["ridgeCV_model"] = Estimator("RidgeCV", NoNum, NoHp, mats["X_train"], alphas[r]),
                                  !["lassoCV_model"] = Estimator("LassoCV", NoNum, NoHp, mats["X_train"], alphas[l])]
                          ELSE [models EXCEPT
                                  !["ridgeCV_model"] = Estimator("RidgeCV", NoNum, NoHp, NoMat, NoNum)]
           /\ Ran(3, out)
    /\ UNCHANGED <<g, mats, data, printed, ChunkVars>>

\* The names the two print statements look up, in order.
ShownNames == <<"ridgeCV", "lassoCV">>

\* print('Ridge alpha:', ridgeCV.alpha_); print('Lasso alpha:', lassoCV.alpha_)
\* The statements run in order; the first unbound name stops the cell.
RECURSIVE Shown(_, _)
Shown(names, have) ==
    IF names = <<>> \/ Head(names) \notin have THEN <<>>
    ELSE <<models[Head(names)].alpha_>> \o Shown(Tail(names), have)

ShowAlphasCell ==
    /\ cell = 4
    /\ printed' = printed \o Shown(ShownNames, bound)
    /\ Ran(4, Outcome({ShownNames[k] : k \in 1..Len(ShownNames)}))
    /\ UNCHANGED <<bound, g, models, mats, data, ChunkVars>>

\* bayes_model = BayesianRidge(); bayes_model.fit(X_train, y_train)
BayesCell ==
    /\ cell = 5
    /\ LET out == Outcome({"X_train", "y_train"})
       IN  /\ bound' = bound \cup {"BayesianRidge", "bayes_model"}
           /\ models' = [models EXCEPT !["bayes_model"] =
                            Estimator("BayesianRidge", NoNum, NoHp,
                                      IF out = "ok" THEN mats["X_train"] ELSE NoMat, NoNum)]
           /\ Ran(5, out)
    /\ UNCHANGED <<g, mats, data, printed, ChunkVars>>

\* sm.add_constant(X): X with a column of ones added.
AddConstant(m) == <<m[1], m[2] + 1, m[3] + 1>>

\* The array name the sm.GLM call passes as its design matrix.
GLMExog == "X_train"

\* X_train_with_constant = sm.add_constant(X_train)
\* poisson_model = sm.GLM(y_train, X_train, family=sm.families.Poisson()); .fit()
PoissonCell ==
    /\ cell = 7
    /\ LET out == Outcome({"X_train", "y_train"})
           ms  == IF out = "ok"
                  THEN [mats EXCEPT !["X_train_with_constant"] = AddConstant(mats["X_train"])]
                  ELSE mats
       IN  /\ mats' = ms
           /\ bound' = bound \cup {"sm"}
                             \cup (IF out = "ok" THEN {"X_train_with_constant", "poisson_model"} ELSE {})
           /\ models' = IF out = "ok"
                        THEN [models EXCEPT !["poisson_model"] =
                                Estimator("GLM", NoNum, NoHp, ms[GLMExog], NoNum)]
                        ELSE models
           /\ Ran(7, out)
    /\ UNCHANGED <<g, data, printed, ChunkVars>>

(***************************************************************************)
(* The fixed-precision chunk, statement by statement.  Every run of it     *)
(* works on the kernel's global names: it has no parameters and no locals. *)
(***************************************************************************)
Final == {"done", "error"}

\* A run of the chunk that has bound a name and not yet called fit.
MidChunk(j) == pc[j] \notin ({"s_big", "fitting"} \cup Final)

\* History: interfered[j] records that another run took a step while run j
\* was between its first statement and its call to fit.
Touch(i) ==
    interfered' = [j \in invs |-> interfered[j] \/ (j # i /\ MidChunk(j))]

\* The chunk's cell is over when every run of it is.
Finish(newpc) ==
    IF \A j \in invs : newpc[j] \in Final
    THEN Ran(6, IF \E j \in invs : newpc[j] = "error" THEN "ZeroDivisionError" ELSE "ok")
    ELSE UNCHANGED <<cell, cellStatus>>

Stmt(i, at, next, ns, names) ==
    /\ cell = 6
    /\ pc[i] = at
    /\ pc' = [pc EXCEPT ![i] = next]
    /\ g' = ns
    /\ bound' = bound \cup names
    /\ Touch(i)
    /\ Finish(pc')
    /\ UNCHANGED <<models, mats, data, printed, invs, inp, fitArgs, fit>>

ChunkBigNumber(i) ==
    Stmt(i, "s_big", "s_alpha", StmtBigNumber(g, inp[i].big), {"big_number"})

ChunkAlpha(i) ==
    IF Raises(inp[i].sigma2)
    THEN Stmt(i, "s_alpha", "error", g, {})
    ELSE Stmt(i, "s_alpha", "s_alpha_1", StmtAlpha(g, inp[i].sigma2), {"alpha"})

ChunkAlpha1(i) == Stmt(i, "s_alpha_1", "s_alpha_2", StmtAlpha1(g), {"alpha_1"})

ChunkAlpha2(i) == Stmt(i, "s_alpha_2", "s_lam", StmtAlpha2(g), {"alpha_2"})

ChunkLam(i) ==
    IF Raises(inp[i].tau)
    THEN Stmt(i, "s_lam", "error", g, {})
    ELSE Stmt(i, "s_lam", "s_lambda_1", StmtLam(g, inp[i].tau), {"lam"})

ChunkLambda1(i) == Stmt(i, "s_lambda_1", "s_lambda_2", StmtLambda1(g), {"lambda_1"})

ChunkLambda2(i) == Stmt(i, "s_lambda_2", "s_construct", StmtLambda2(g), {"lambda_2"})

\* bayes_model = BayesianRidge(alpha_1 = alpha_1, ..., lambda_init = lam)
ChunkConstruct(i) ==
    /\ cell = 6
    /\ pc[i] = "s_construct"
    /\ pc' = [pc EXCEPT ![i] = "s_fit"]
    /\ models' = [models EXCEPT !["bayes_model"] =
                    Estimator("BayesianRidge", NoNum, CtorArgs(g), NoMat, NoNum)]
    /\ Touch(i)
    /\ UNCHANGED <<cell, bound, g, mats, data, printed, cellStatus, invs, inp, fitArgs, fit>>

\* bayes_model.fit(X_train, y_train): the estimator the name is bound to now
\* starts fitting, seeded with its alpha_init and lambda_init.
ChunkFit(i) ==
    /\ cell = 6
    /\ pc[i] = "s_fit"
    /\ pc' = [pc EXCEPT ![i] = "fitting"]
    /\ fitArgs' = [fitArgs EXCEPT ![i] = models["bayes_model"].hp]
    /\ fit' = [fit EXCEPT ![i] = [NoFit EXCEPT !.alpha_ = models["bayes_model"].hp.alpha_init,
                                                !.lambda_ = models["bayes_model"].hp.lambda_init,
                                                !.n = mats["X_train"][1]]]
    /\ models' = [models EXCEPT !["bayes_model"].exog = mats["X_train"]]
    /\ Touch(i)
    /\ UNCHANGED <<cell, bound, g, mats, data, printed, cellStatus, invs, inp>>

\* One pass of the fitting loop.  The loop ends when n_iter passes are made
\* or, from the second pass on, when the weights have converged.
FitIter(i) ==
    /\ cell = 6
    /\ pc[i] = "fitting"
    /\ fit[i].iter < MaxIter
    /\ \E gamma \in GammaVals(mats["X_train"][2]), rss \in RssVals, w2 \in W2Vals :
         fit' = [fit EXCEPT ![i] =
                    [alpha_  |-> UpdateAlpha(fitArgs[i], fit[i].n, gamma, rss),
                     lambda_ |-> UpdateLambda(fitArgs[i], gamma, w2),
                     iter    |-> fit[i].iter + 1,
                     n       |-> fit[i].n,
                     gamma   |-> gamma,
                     rss     |-> rss,
                     w2      |-> w2]]
    /\ \E converged \in BOOLEAN :
         /\ converged => fit[i].iter # 0
         /\ pc' = [pc EXCEPT ![i] =
                     IF converged \/ fit[i].iter + 1 = MaxIter THEN "done" ELSE "fitting"]
    /\ Finish(pc')
    /\ UNCHANGED <<bound, g, models, mats, data, printed, invs, inp, fitArgs, interfered>>

Chunk(i) ==
    \/ ChunkBigNumber(i)
    \/ ChunkAlpha(i)
    \/ ChunkAlpha1(i)
    \/ ChunkAlpha2(i)
    \/ ChunkLam(i)
    \/ ChunkLambda1(i)
    \/ ChunkLambda2(i)
    \/ ChunkConstruct(i)
    \/ ChunkFit(i)

(***************************************************************************)
(* The notebook run top to bottom                                          *)
(***************************************************************************)
Next ==
    \/ LoadCell
    \/ RidgeLassoCell
    \/ CVCell
    \/ ShowAlphasCell
    \/ BayesCell
    \/ \E i \in invs : Chunk(i)
    \/ \E i \in invs : FitIter(i)
    \/ PoissonCell

Spec == Init /\ [][Next]_vars

(***************************************************************************)
(* Two runs of the chunk in one kernel, their statements interleaved.      *)
(* The kernel is as the cells before the chunk leave it (the recorded      *)
(* output gives the alphas the cross-validated fits selected); the fits    *)
(* themselves are not followed.                                            *)
(***************************************************************************)
ConcInputs ==
    {SourceInput,
     [sigma2 |-> FromInt(2), tau |-> Rat(1, 2), big |-> FromInt(10000)],
     [sigma2 |-> FromInt(2), tau |-> FromInt(0), big |-> FromInt(2)]}

KernelBeforeChunk ==
    /\ cell = 6
    /\ bound = {"np", "plt", "sns", "datasets", "boston", "X_train", "y_train",
                "Ridge", "Lasso", "alpha", "ridge_model", "lasso_model",
                "RidgeCV", "LassoCV", "alphas", "ridgeCV_model", "lassoCV_model",
                "BayesianRidge", "bayes_model"}
    /\ g = [nm \in NumNames |-> IF nm = "alpha" THEN FromInt(1) ELSE NoNum]
    /\ \E sh \in Shapes :
        /\ data = sh
        /\ mats = [nm \in MatNames |->
                     CASE nm = "X_train" -> <<sh[1], sh[2], 0>>
                       [] nm = "y_train" -> <<sh[1], 1, 0>>
                       [] OTHER -> NoMat]
        /\ models = [nm \in ModelNames |->
                     CASE nm = "ridge_model" -> Estimator("Ridge", FromInt(1), NoHp, <<sh[1], sh[2], 0>>, NoNum)
                       [] nm = "lasso_model" -> Estimator("Lasso", FromInt(1), NoHp, <<sh[1], sh[2], 0>>, NoNum)
                       [] nm = "ridgeCV_model" -> Estimator("RidgeCV", NoNum, NoHp, <<sh[1], sh[2], 0>>, alphas[1])
                       [] nm = "lassoCV_model" -> Estimator("LassoCV", NoNum, NoHp, <<sh[1], sh[2], 0>>, alphas[2])
                       [] nm = "bayes_model" -> Estimator("BayesianRidge", NoNum, NoHp, <<sh[1], sh[2], 0>>, NoNum)
                       [] OTHER -> NoModel]
    /\ printed = <<>>
    /\ cellStatus = [c \in Cells |-> IF c = 4 THEN "NameError" ELSE IF c < 6 THEN "ok" ELSE "notrun"]

InitConc ==
    /\ KernelBeforeChunk
    /\ Pending({1, 2})
    /\ inp[1] \in ConcInputs
    /\ inp[2] \in ConcInputs
    /\ inp[1] # inp[2]

NextConc == \E i \in invs : Chunk(i)

SpecConc == InitConc /\ [][NextConc]_vars

(***************************************************************************)
(* Properties                                                              *)
(***************************************************************************)
IsZero(x) == x = <<0, 1>>

Valid(in) == RatPos(in.sigma2) /\ RatPos(in.tau) /\ RatPos(in.big)

\* The derivation of run i is complete.
Derived(i) == pc[i] \in {"s_construct", "s_fit", "fitting", "done"}

\* Run i has called fit.
Handed(i) == pc[i] \in {"fitting", "done"}

\* The six values the derivation is specified to produce from its inputs.
Alone(in) ==
    [alpha_1 |-> RatMul(in.big, RatInv(in.sigma2)), alpha_2 |-> in.big,
     alpha_init |-> RatInv(in.sigma2),
     lambda_1 |-> RatMul(in.big, RatInv(in.tau)), lambda_2 |-> in.big,
     lambda_init |-> RatInv(in.tau)]

\* C1: for sigma2, tau, B > 0 the fit receives alpha_1 = B/sigma2,
\* alpha_2 = B, lambda_1 = B/tau, lambda_2 = B; the prior means
\* alpha_1/alpha_2 and lambda_1/lambda_2 are 1/sigma2 and 1/tau whatever B
\* is, and the seeds alpha_init, lambda_init equal those means.
C1_Hyperparameters ==
    \A i \in invs :
        (Valid(inp[i]) /\ Handed(i)) =>
            /\ fitArgs[i].alpha_1 = RatMul(inp[i].big, RatInv(inp[i].sigma2))
            /\ fitArgs[i].alpha_2 = inp[i].big
            /\ fitArgs[i].lambda_1 = RatMul(inp[i].big, RatInv(inp[i].tau))
            /\ fitArgs[i].lambda_2 = inp[i].big
            /\ RatDiv(fitArgs[i].alpha_1, fitArgs[i].alpha_2) = RatInv(inp[i].sigma2)
            /\ RatDiv(fitArgs[i].lambda_1, fitArgs[i].lambda_2) = RatInv(inp[i].tau)
            /\ fitArgs[i].alpha_init = RatDiv(fitArgs[i].alpha_1, fitArgs[i].alpha_2)
            /\ fitArgs[i].lambda_init = RatDiv(fitArgs[i].lambda_1, fitArgs[i].lambda_2)

C1_Witness ==
    \E i \in invs :
        /\ Handed(i)
        /\ inp[i] = [sigma2 |-> FromInt(2), tau |-> Rat(1, 2), big |-> FromInt(10000)]
        /\ fitArgs[i].alpha_1 = FromInt(5000)

\* C2 (as claimed): whenever sigma2, tau or confidence_scale is zero or
\* negative the derivation ends in an error and the fitting routine is never
\* reached with hyperparameters derived from that input.
C2_InvalidArgument ==
    \A i \in invs : ~Valid(inp[i]) => ~Derived(i)

\* C2 (amended): the derivation ends in an error exactly when sigma2 or tau
\* is zero (the division raises), and then neither the estimator is built
\* nor fit called; no other input ends in an error.
C2_ZeroDivisionOnly ==
    \A i \in invs :
        /\ pc[i] = "error" => (IsZero(inp[i].sigma2) \/ IsZero(inp[i].tau))
        /\ (IsZero(inp[i].sigma2) \/ IsZero(inp[i].tau)) =>
              (~Derived(i) /\ fitArgs[i] = NoHp /\ models["bayes_model"].hp = NoHp)

C2_Witness ==
    \E i \in invs :
        /\ pc[i] = "error"
        /\ IsZero(inp[i].tau)
        /\ RatPos(inp[i].sigma2)
        /\ cellStatus[6] = "ZeroDivisionError"

\* x is within 1% of the target t.
Within1pct(x, t) == RatLeq(RatMul(FromInt(100), RatAbs(RatSub(x, t))), RatAbs(t))

NoiseWithin(i) == Within1pct(RatInv(fit[i].alpha_), inp[i].sigma2)

WeightWithin(i) == Within1pct(RatInv(fit[i].lambda_), inp[i].tau)

\* 100*|rss - (n - gamma)*sigma2| <= (n - gamma)*sigma2 + 2*B
NoiseTerm(i) == RatMul(FromInt(fit[i].n - fit[i].gamma), inp[i].sigma2)

NoiseDominated(i) ==
    RatLeq(RatMul(FromInt(100), RatAbs(RatSub(FromInt(fit[i].rss), NoiseTerm(i)))),
           RatAdd(NoiseTerm(i), RatMul(FromInt(2), inp[i].big)))

\* 100*|w2 - gamma*tau| <= gamma*tau + 2*B
WeightTerm(i) == RatMul(FromInt(fit[i].gamma), inp[i].tau)

WeightDominated(i) ==
    RatLeq(RatMul(FromInt(100), RatAbs(RatSub(FromInt(fit[i].w2), WeightTerm(i)))),
           RatAdd(WeightTerm(i), RatMul(FromInt(2), inp[i].big)))

\* C3 (as claimed): with the source's values (B = 10**5) the fitted noise
\* variance 1/alpha_ is within 1% of sigma2 and the fitted weight variance
\* 1/lambda_ within 1% of tau, for every dataset.
C3_AnyDataset ==
    \A i \in invs :
        (pc[i] = "done" /\ inp[i] = SourceInput) => (NoiseWithin(i) /\ WeightWithin(i))

\* C3 (amended): for sigma2, tau, B > 0 the fitted noise variance is within
\* 1% of sigma2 exactly when 100*|rss - (n - gamma)*sigma2| <=
\* (n - gamma)*sigma2 + 2*B, and the fitted weight variance within 1% of tau
\* exactly when 100*|w2 - gamma*tau| <= gamma*tau + 2*B, where n, gamma, rss
\* and w2 are the sample count, effective parameter count, residual sum of
\* squares and squared weight norm of the last pass: the data decide it.
C3_DataDependent ==
    \A i \in invs :
        (pc[i] = "done" /\ Valid(inp[i])) =>
            /\ NoiseWithin(i) <=> NoiseDominated(i)
            /\ WeightWithin(i) <=> WeightDominated(i)

C3_Witness ==
    \E i \in invs :
        /\ pc[i] = "done"
        /\ inp[i] = SourceInput
        /\ fit[i].n = 506
        /\ fit[i].rss = 6000
        /\ NoiseWithin(i)
        /\ WeightWithin(i)

\* The statements of the derivation and the name each one assigns.
DerivePcs == {"s_big", "s_alpha", "s_alpha_1", "s_alpha_2", "s_lam", "s_lambda_1", "s_lambda_2"}

Target(at) ==
    CASE at = "s_big" -> "big_number"
      [] at = "s_alpha" -> "alpha"
      [] at = "s_alpha_1" -> "alpha_1"
      [] at = "s_alpha_2" -> "alpha_2"
      [] at = "s_lam" -> "lam"
      [] at = "s_lambda_1" -> "lambda_1"
      [] at = "s_lambda_2" -> "lambda_2"

\* C4 (as claimed): after the derivation the regularization strength alpha
\* of the Ridge and Lasso fits and the default bayes_model are as before it.
C4_RidgeAlphaKept ==
    \A i \in invs :
        pc[i] = "s_construct" =>
            /\ g["alpha"] = models["ridge_model"].reg
            /\ models["bayes_model"].hp = NoHp

\* C4 (amended): each statement of the derivation rebinds only the global it
\* assigns (big_number, alpha, alpha_1, alpha_2, lam, lambda_1, lambda_2);
\* estimators (bayes_model included), arrays, output and all other names are
\* unchanged.  The result alpha is the global that held the Ridge/Lasso
\* regularization strength, and is overwritten with 1/sigma2.
C4_RebindsOnlyResults ==
    [][\A i \in invs :
          (pc[i] \in DerivePcs /\ pc'[i] # pc[i]) =>
              /\ models' = models
              /\ mats' = mats
              /\ data' = data
              /\ printed' = printed
              /\ bound' \ NumNames = bound \ NumNames
              /\ \A nm \in NumNames : g'[nm] # g[nm] => nm = Target(pc[i])
              /\ pc'[i] = "s_alpha_1" => g'["alpha"] = RatInv(inp[i].sigma2)]_vars

C4_Witness ==
    \E i \in invs :
        /\ pc[i] = "s_construct"
        /\ cellStatus[2] = "ok"
        /\ models["ridge_model"].reg = FromInt(1)
        /\ g["alpha"] = Rat(10, 118)
        /\ models["bayes_model"].hp = NoHp

\* C5 (as claimed): when the derivation ends in an error none of alpha,
\* alpha_1, alpha_2, lam, lambda_1, lambda_2 has been written.
C5_NothingWritten ==
    \A i \in invs :
        pc[i] = "error" =>
            /\ g["alpha"] = models["ridge_model"].reg
            /\ \A nm \in {"alpha_1", "alpha_2", "lam", "lambda_1", "lambda_2"} : g[nm] = NoNum

\* C5 (amended): when the derivation ends in an error, the assignments made
\* before the failing division stand: big_number is written; if sigma2 is
\* nonzero (the failure is at 1/tau) alpha, alpha_1 and alpha_2 hold 1/sigma2,
\* B/sigma2 and B, otherwise they are untouched; lam, lambda_1 and lambda_2
\* are never written and no estimator is built or fitted.
C5_PrefixWritten ==
    \A i \in invs :
        pc[i] = "error" =>
            /\ g["big_number"] = inp[i].big
            /\ \A nm \in {"lam", "lambda_1", "lambda_2"} : g[nm] = NoNum
            /\ fitArgs[i] = NoHp
            /\ models["bayes_model"].hp = NoHp
            /\ IF IsZero(inp[i].sigma2)
               THEN /\ g["alpha"] = models["ridge_model"].reg
                    /\ g["alpha_1"] = NoNum
                    /\ g["alpha_2"] = NoNum
               ELSE /\ g["alpha"] = RatInv(inp[i].sigma2)
                    /\ g["alpha_1"] = RatMul(inp[i].big, RatInv(inp[i].sigma2))
                    /\ g["alpha_2"] = inp[i].big

C5_Witness ==
    \E i \in invs :
        /\ pc[i] = "error"
        /\ inp[i].sigma2 = Rat(118, 10)
        /\ IsZero(inp[i].tau)
        /\ g["alpha_1"] # NoNum
        /\ g["lam"] = NoNum

\* C6 (as claimed): under every interleaving of two runs with different
\* inputs, each run hands its fit exactly the six values it produces alone.
C6_AnyInterleaving ==
    \A i \in invs : Handed(i) => fitArgs[i] = Alone(inp[i])

\* C6 (amended): the runs share the kernel's global names, so they need
\* coordination: a run hands its fit exactly the six values it produces
\* alone provided no other run takes a step between its first assignment and
\* its call to fit.
C6_WhenSerialized ==
    \A i \in invs : (Handed(i) /\ ~interfered[i]) => fitArgs[i] = Alone(inp[i])

C6_Witness ==
    /\ invs = {1, 2}
    /\ \A i \in invs : Handed(i) /\ ~interfered[i]
    /\ fitArgs[1] # fitArgs[2]

\* The scale the notebook's text states for the worked example.
TextScale == 10000

\* C7: for sigma^2 = 11.8 and tau = 10 the chunk passes to BayesianRidge the
\* hyperparameters the text states: alpha_1 = 10000/11.8, alpha_2 = 10000,
\* lambda_1 = 10000/10, lambda_2 = 10000.
C7_TextHyperparameters ==
    \A i \in invs :
        (Handed(i) /\ inp[i] = SourceInput) =>
            /\ fitArgs[i].alpha_1 = RatMul(FromInt(TextScale), Rat(10, 118))
            /\ fitArgs[i].alpha_2 = FromInt(TextScale)
            /\ fitArgs[i].lambda_1 = RatMul(FromInt(TextScale), Rat(1, 10))
            /\ fitArgs[i].lambda_2 = FromInt(TextScale)

\* The variance shape/rate^2 of a Gamma(shape, rate) distribution.
GammaVariance(shape, rate) == RatDiv(RatDiv(shape, rate), rate)

\* C8: with sigma2 and tau fixed, the Gamma variances alpha_1/alpha_2^2 and
\* lambda_1/lambda_2^2 derived with a larger confidence scale are strictly
\* smaller.
C8_VarianceDecreases ==
    \A i \in invs :
        (pc[i] = "s_construct" /\ Valid(inp[i])) =>
            \A b \in BigVals :
                RatLt(inp[i].big, b) =>
                    LET more == Derive(g, [inp[i] EXCEPT !.big = b])
                    IN  /\ RatLt(GammaVariance(more["alpha_1"], more["alpha_2"]),
                                 GammaVariance(g["alpha_1"], g["alpha_2"]))
                        /\ RatLt(GammaVariance(more["lambda_1"], more["lambda_2"]),
                                 GammaVariance(g["lambda_1"], g["lambda_2"]))

C8_Witness ==
    \E i \in invs :
        /\ pc[i] = "s_construct"
        /\ inp[i] = [sigma2 |-> Rat(118, 10), tau |-> FromInt(10), big |-> FromInt(10000)]
        /\ GammaVariance(g["alpha_1"], g["alpha_2"]) = Rat(1, 118000)

\* C9: run top to bottom, the cell after the RidgeCV/LassoCV cell completes
\* and prints the alpha each of the two cross-validated models selected, each
\* one of the candidates.
C9_ShowsSelectedAlphas ==
    cellStatus[4] # "notrun" =>
        /\ cellStatus[4] = "ok"
        /\ printed = <<models["ridgeCV_model"].alpha_, models["lassoCV_model"].alpha_>>
        /\ \A k \in 1..Len(printed) : printed[k] \in AlphaSet

\* C10: the Poisson GLM is fitted on the design matrix with the intercept
\* column, the result of sm.add_constant(X_train).
C10_GLMOnConstant ==
    cellStatus[7] = "ok" =>
        /\ models["poisson_model"].exog = mats["X_train_with_constant"]
        /\ models["poisson_model"].exog[3] = 1

====
